---- MODULE Spec2Model ----
(***************************************************************************)
(* Model of the template-execution and export-reconciliation core:         *)
(*   - execution.Operation (UpdateStatus, CreateOrUpdateExportReference)   *)
(*   - template.Templater  (the three render pipelines)                    *)
(***************************************************************************)
EXTENDS Integers, Sequences, FiniteSets, TLC

(***************************************************************************)
(* Bounds                                                                  *)
(***************************************************************************)
\* longest list of conditions handed to one UpdateStatus call
MaxConds == 1
\* longest executor list of one pipeline of a blueprint
MaxExecutors == 2
\* most backends handed to template.New
MaxTemplaters == 2

\* the failures of the store that a retried call meets at most
MaxFaults == 2

\* the imports of the blueprint handed to a BlueprintBuilder and the
\* definitions handed to one AddImports, at most
MaxImports == 2

VARIABLES
    execs,      \* o.exec.Status of the Operation of each execution (in memory)
    stored,     \* the execution status held by the store
    objects,    \* the data objects held by the store
    last,       \* the last call on an Operation: arguments, result, writes issued
    pc,         \* where the call in progress on the Operation of each execution stands
    loop,       \* the caller that retries a CreateOrUpdateExportReference until it succeeds
    newArgs,    \* the backends handed to New, in order
    impl,       \* Templater.impl: type-tag -> backend
    opts,       \* the DeployExecutionOptions of the render, the blueprint in it
    run,        \* the last pipeline run: result, backends invoked
    blueprintYaml,  \* the blueprint held by the blueprint file of the component directory
    executionFiles, \* the deploy items that have an execution file in the blueprint directory
    builder,    \* BlueprintBuilder.blueprint
    cmd         \* the last command or BlueprintBuilder call: arguments, result

vars == <<execs, stored, objects, last, pc, loop, newArgs, impl, opts, run,
          blueprintYaml, executionFiles, builder, cmd>>

execVars == <<execs, stored, objects, last, pc, loop>>

templateVars == <<newArgs, impl, opts, run>>

componentVars == <<blueprintYaml, executionFiles, builder, cmd>>

(***************************************************************************)
(* Sequences                                                               *)
(***************************************************************************)
SeqsUpTo(S, n) == UNION {[1..k -> S] : k \in 0..n}

Range(s) == {s[i] : i \in DOMAIN s}

(***************************************************************************)
(* Execution state controller                                              *)
(***************************************************************************)
\* errors are tuples of strings; nil is the empty tuple
NoErr == <<>>

ErrBuild == <<"json: unsupported type">>

ErrOwnerRef == <<"owner reference: no kind is registered">>

ErrStore == <<"store: write of the data object failed">>

ErrStatus == <<"store: write of the execution status failed">>

\* The executions of the store; an Operation is constructed for one execution.
ExecA == [namespace |-> "ns", name |-> "a"]

ExecB == [namespace |-> "ns", name |-> "b"]

Executions == {ExecA, ExecB}

ExecutionPhases == {"Init", "Progressing"}

ConditionTypes == {"A", "B"}

ConditionStatuses == {"True", "False"}

Condition == [type : ConditionTypes, status : ConditionStatuses]

\* values handed to CreateOrUpdateExportReference; a channel cannot be
\* marshalled to JSON
Values == {"v1", "v2", "chan"}

NoRef == [name |-> <<>>, namespace |-> ""]

\* the status of a fresh execution
NewStatus == [phase |-> "Init", conditions |-> <<>>, exportReference |-> NoRef]

IndexOfType(conditions, t) ==
    IF \E i \in DOMAIN conditions : conditions[i].type = t
    THEN CHOOSE i \in DOMAIN conditions :
            /\ conditions[i].type = t
            /\ \A j \in DOMAIN conditions : conditions[j].type = t => i <= j
    ELSE 0

MergeCondition(conditions, c) ==
    LET i == IndexOfType(conditions, c.type) IN
    IF i = 0 THEN Append(conditions, c)
    ELSE [conditions EXCEPT ![i] = c]

RECURSIVE MergeConditions(_, _)
MergeConditions(conditions, updatedConditions) ==
    IF updatedConditions = <<>> THEN conditions
    ELSE MergeConditions(MergeCondition(conditions, Head(updatedConditions)),
                         Tail(updatedConditions))

\* Writer().UpdateExecutionStatus: the store takes over the whole status, or
\* fails and keeps what it has.
UpdateExecutionStatus(old, status, fails) ==
    IF fails THEN [stored |-> old, err |-> ErrStatus]
    ELSE [stored |-> status, err |-> NoErr]

\* o.exec: the execution e with the status st
Exec(e, st) == [namespace |-> e.namespace, name |-> e.name, status |-> st]

\* a variant that takes the supplied conditions for the conditions of the
\* execution instead of merging them
UpdateStatusOfOverwrite(ex, sto, phase, updatedConditions, writeFails) ==
    LET st1 == [ex.status EXCEPT !.phase = phase]
        st2 == [st1 EXCEPT !.conditions = updatedConditions]
        w == UpdateExecutionStatus(sto, st2, writeFails)
    IN  [exec |-> [ex EXCEPT !.status = st2], stored |-> w.stored, err |-> w.err,
         io |-> <<"UpdateExecutionStatus">>]

\* a variant that gives the execution its former status back when the write
\* of the status fails
UpdateStatusOfRollback(ex, sto, phase, updatedConditions, writeFails) ==
    LET st1 == [ex.status EXCEPT !.phase = phase]
        st2 == [st1 EXCEPT !.conditions = MergeConditions(st1.conditions, updatedConditions)]
        w == UpdateExecutionStatus(sto, st2, writeFails)
    IN  [exec |-> IF w.err = NoErr THEN [ex EXCEPT !.status = st2] ELSE ex,
         stored |-> w.stored, err |-> w.err, io |-> <<"UpdateExecutionStatus">>]

\* a variant that tries a failed status write a second time
UpdateStatusOfRetry(ex, sto, phase, updatedConditions, writeFails) ==
    LET st1 == [ex.status EXCEPT !.phase = phase]
        st2 == [st1 EXCEPT !.conditions = MergeConditions(st1.conditions, updatedConditions)]
        w == UpdateExecutionStatus(sto, st2, writeFails)
        w2 == UpdateExecutionStatus(w.stored, st2, FALSE)
    IN  IF w.err = NoErr
        THEN [exec |-> [ex EXCEPT !.status = st2], stored |-> w.stored, err |-> w.err,
              io |-> <<"UpdateExecutionStatus">>]
        ELSE [exec |-> [ex EXCEPT !.status = st2], stored |-> w2.stored, err |-> w2.err,
              io |-> <<"UpdateExecutionStatus", "UpdateExecutionStatus">>]

\* Operation.UpdateStatus on the in-memory execution ex, the store holding the
\* status sto: the execution and the stored status after the call, the error
\* returned and the calls issued to the writer.
UpdateStatusOf(ex, sto, phase, updatedConditions, writeFails) ==
    LET st1 == [ex.status EXCEPT !.phase = phase]
        st2 == [st1 EXCEPT !.conditions = MergeConditions(st1.conditions, updatedConditions)]
        w == UpdateExecutionStatus(sto, st2, writeFails)
    IN  [exec |-> [ex EXCEPT !.status = st2], stored |-> w.stored, err |-> w.err,
         io |-> <<"UpdateExecutionStatus">>]

DataObjectSourceFromExecution(ex) == <<"executions", ex.namespace, ex.name>>

GenerateDataObjectName(context, key) == <<"do", context, key>>

\* a variant whose context depends on the status of the execution: on whether
\* it has an export reference already
NewDataObjectStatusContext(ex, values) ==
    [namespace |-> ex.namespace,
     source |-> DataObjectSourceFromExecution(ex),
     context |-> Append(DataObjectSourceFromExecution(ex),
                        IF ex.status.exportReference = NoRef THEN "new" ELSE "exported"),
     data |-> values]

\* a variant whose context is derived from the namespace of the execution alone
NewDataObjectNamespaceContext(ex, values) ==
    [namespace |-> ex.namespace,
     source |-> DataObjectSourceFromExecution(ex),
     context |-> <<"executions", ex.namespace>>,
     data |-> values]

\* dataobjects.New().SetNamespace().SetSource().SetContext().SetData()
NewDataObject(ex, values) ==
    [namespace |-> ex.namespace,
     source |-> DataObjectSourceFromExecution(ex),
     context |-> DataObjectSourceFromExecution(ex),
     data |-> values]

NoOwner == [namespace |-> "", name |-> ""]

\* do.Apply(raw)
Apply(do, raw) ==
    [raw EXCEPT !.source = do.source, !.context = do.context, !.data = do.data]

\* do.Build()
Build(do) ==
    IF do.data = "chan"
    THEN [err |-> ErrBuild, raw |-> <<>>]
    ELSE [err |-> NoErr,
          raw |-> Apply(do, [name |-> GenerateDataObjectName(do.context, ""),
                             namespace |-> do.namespace,
                             source |-> <<>>, context |-> <<>>, data |-> "",
                             owner |-> NoOwner])]

\* controllerutil.SetOwnerReference(o.exec, raw, scheme)
SetOwnerReference(ex, raw, fails) ==
    IF fails THEN [err |-> ErrOwnerRef, obj |-> raw]
    ELSE [err |-> NoErr, obj |-> [raw EXCEPT !.owner = [namespace |-> ex.namespace, name |-> ex.name]]]

\* a variant that applies the data object without setting the owner reference
MutateExportNoOwner(ex, do, raw, ownerFails) ==
    [err |-> NoErr, obj |-> Apply(do, raw)]

\* a variant that drops the error of SetOwnerReference
MutateExportIgnoreOwnerError(ex, do, raw, ownerFails) ==
    [err |-> NoErr, obj |-> Apply(do, SetOwnerReference(ex, raw, ownerFails).obj)]

\* the mutate function handed to CreateOrUpdateDataObject
MutateExport(ex, do, raw, ownerFails) ==
    LET r == SetOwnerReference(ex, raw, ownerFails) IN
    IF r.err # NoErr THEN r
    ELSE [err |-> NoErr, obj |-> Apply(do, r.obj)]

SameKey(o, raw) == o.name = raw.name /\ o.namespace = raw.namespace

\* the object that CreateOrUpdateDataObject hands to the mutate function: the
\* one the store has under raw's key, raw itself when it has none
GetDataObject(objs, raw) ==
    LET found == {o \in objs : SameKey(o, raw)} IN
    IF found = {} THEN raw ELSE CHOOSE o \in found : TRUE

\* Writer().CreateOrUpdateDataObject, m being the result of the mutate function
\* on GetDataObject(objs, raw): the mutated object is created or takes the
\* place of the one of its key, unless mutating or writing fails.
CreateOrUpdateDataObject(objs, raw, m, storeFails) ==
    IF m.err # NoErr THEN [err |-> m.err, objects |-> objs]
    ELSE IF storeFails THEN [err |-> ErrStore, objects |-> objs]
    ELSE [err |-> NoErr, objects |-> {o \in objs : ~SameKey(o, raw)} \cup {m.obj}]

\* a variant that leaves the namespace of the reference empty
ObjectReferenceNameOnly(raw) == [name |-> raw.name, namespace |-> ""]

\* the lsv1alpha1.ObjectReference to the data object raw
ObjectReference(raw) == [name |-> raw.name, namespace |-> raw.namespace]

\* the failure injected into one call: none, SetOwnerReference, the write of
\* the data object, the write of the status
Failures == {"none", "owner", "store", "status"}

\* a variant that creates the data object and fails when the store has one of
\* its name already
CreateOrUpdateExportReferenceOfCreateOnly(ex, sto, objs, values, fail) ==
    LET do == NewDataObject(ex, values)
        b == Build(do)
    IN  IF b.err # NoErr
        THEN [exec |-> ex, stored |-> sto, objects |-> objs, err |-> b.err, io |-> <<>>]
        ELSE IF \E o \in objs : SameKey(o, b.raw)
        THEN [exec |-> ex, stored |-> sto, objects |-> objs, err |-> <<"already exists">>,
              io |-> <<"CreateOrUpdateDataObject">>]
        ELSE
        LET cu == CreateOrUpdateDataObject(objs, b.raw,
                      MutateExport(ex, do, GetDataObject(objs, b.raw), fail = "owner"),
                      fail = "store")
        IN  IF cu.err # NoErr
            THEN [exec |-> ex, stored |-> sto, objects |-> objs, err |-> cu.err,
                  io |-> <<"CreateOrUpdateDataObject">>]
            ELSE
            LET ex1 == [ex EXCEPT !.status.exportReference = ObjectReference(b.raw)]
                r == UpdateStatusOf(ex1, sto, ex1.status.phase, <<>>, fail = "status")
            IN  [exec |-> r.exec, stored |-> r.stored, objects |-> cu.objects, err |-> r.err,
                 io |-> <<"CreateOrUpdateDataObject">> \o r.io]

\* a variant that goes on to set and write the export reference after a
\* failed CreateOrUpdateDataObject
CreateOrUpdateExportReferenceOfIgnoreUpsertError(ex, sto, objs, values, fail) ==
    LET do == NewDataObject(ex, values)
        b == Build(do)
    IN  IF b.err # NoErr
        THEN [exec |-> ex, stored |-> sto, objects |-> objs, err |-> b.err, io |-> <<>>]
        ELSE
        LET cu == CreateOrUpdateDataObject(objs, b.raw,
                      MutateExport(ex, do, GetDataObject(objs, b.raw), fail = "owner"),
                      fail = "store")
            ex1 == [ex EXCEPT !.status.exportReference = ObjectReference(b.raw)]
            r == UpdateStatusOf(ex1, sto, ex1.status.phase, <<>>, fail = "status")
        IN  [exec |-> r.exec, stored |-> r.stored, objects |-> cu.objects, err |-> r.err,
             io |-> <<"CreateOrUpdateDataObject">> \o r.io]

\* Operation.CreateOrUpdateExportReference on the in-memory execution ex, the
\* store holding the status sto and the data objects objs.
CreateOrUpdateExportReferenceOf(ex, sto, objs, values, fail) ==
    LET do == NewDataObject(ex, values)
        b == Build(do)
    IN  IF b.err # NoErr
        THEN [exec |-> ex, stored |-> sto, objects |-> objs, err |-> b.err, io |-> <<>>]
        ELSE
        LET cu == CreateOrUpdateDataObject(objs, b.raw,
                      MutateExport(ex, do, GetDataObject(objs, b.raw), fail = "owner"),
                      fail = "store")
        IN  IF cu.err # NoErr
            THEN [exec |-> ex, stored |-> sto, objects |-> objs, err |-> cu.err,
                  io |-> <<"CreateOrUpdateDataObject">>]
            ELSE
            LET ex1 == [ex EXCEPT !.status.exportReference = ObjectReference(b.raw)]
                r == UpdateStatusOf(ex1, sto, ex1.status.phase, <<>>, fail = "status")
            IN  [exec |-> r.exec, stored |-> r.stored, objects |-> cu.objects, err |-> r.err,
                 io |-> <<"CreateOrUpdateDataObject">> \o r.io]

\* the record of one call on an Operation
Call(op, e, phase, conds, values, fail, err, io, again) ==
    [op |-> op, exec |-> e, phase |-> phase, conds |-> conds, values |-> values,
     fail |-> fail, err |-> err, io |-> io, again |-> again]

\* no caller is retrying
NoLoop == [values |-> "", faults |-> 0, failed |-> {}, done |-> FALSE]

NoCall == Call("none", ExecA, "Init", <<>>, "", "none", NoErr, <<>>, FALSE)

\* Operation.UpdateStatus
UpdateStatus(e, phase, updatedConditions, writeFails) ==
    LET r == UpdateStatusOf(Exec(e, execs[e]), stored[e], phase, updatedConditions, writeFails) IN
    /\ pc[e] = "idle"
    /\ execs' = [execs EXCEPT ![e] = r.exec.status]
    /\ stored' = [stored EXCEPT ![e] = r.stored]
    /\ last' = Call("UpdateStatus", e, phase, updatedConditions, "",
                    IF writeFails THEN "status" ELSE "none", r.err, r.io, FALSE)
    /\ UNCHANGED <<objects, pc, templateVars, componentVars>>

\* Operation.CreateOrUpdateExportReference; again: the call before it was a
\* successful CreateOrUpdateExportReference of the same execution and values
CreateOrUpdateExportReference(e, values, fail) ==
    LET r == CreateOrUpdateExportReferenceOf(Exec(e, execs[e]), stored[e], objects, values, fail) IN
    /\ execs' = [execs EXCEPT ![e] = r.exec.status]
    /\ stored' = [stored EXCEPT ![e] = r.stored]
    /\ objects' = r.objects
    /\ last' = Call("CreateOrUpdateExportReference", e, execs[e].phase, <<>>, values, fail, r.err, r.io,
                    /\ last.op = "CreateOrUpdateExportReference"
                    /\ last.exec = e
                    /\ last.values = values
                    /\ last.err = NoErr)
    /\ UNCHANGED <<pc, templateVars, componentVars>>

\* CreateOrUpdateExportReference up to the return of CreateOrUpdateDataObject,
\* for executions processed concurrently: the data object is built and
\* upserted and the export reference is set in memory; next tells whether the
\* write of the status is still to come.
UpsertExportOf(ex, objs, values, fail) ==
    LET do == NewDataObject(ex, values)
        b == Build(do)
    IN  IF b.err # NoErr
        THEN [exec |-> ex, objects |-> objs, err |-> b.err, io |-> <<>>, next |-> "idle"]
        ELSE
        LET cu == CreateOrUpdateDataObject(objs, b.raw,
                      MutateExport(ex, do, GetDataObject(objs, b.raw), fail = "owner"),
                      fail = "store")
        IN  IF cu.err # NoErr
            THEN [exec |-> ex, objects |-> objs, err |-> cu.err,
                  io |-> <<"CreateOrUpdateDataObject">>, next |-> "idle"]
            ELSE [exec |-> [ex EXCEPT !.status.exportReference = ObjectReference(b.raw)],
                  objects |-> cu.objects, err |-> NoErr,
                  io |-> <<"CreateOrUpdateDataObject">>, next |-> "status"]

\* the first store operation of a CreateOrUpdateExportReference on the
\* Operation of e, which has no call in progress
UpsertExport(e, values, fail) ==
    LET r == UpsertExportOf(Exec(e, execs[e]), objects, values, fail) IN
    /\ pc[e] = "idle"
    /\ execs' = [execs EXCEPT ![e] = r.exec.status]
    /\ objects' = r.objects
    /\ pc' = [pc EXCEPT ![e] = r.next]
    /\ last' = Call("CreateOrUpdateDataObject", e, execs[e].phase, <<>>, values, fail,
                    r.err, r.io, FALSE)
    /\ UNCHANGED <<stored, templateVars, componentVars>>

\* the o.UpdateStatus(ctx, o.exec.Status.Phase) that ends the
\* CreateOrUpdateExportReference in progress on the Operation of e
WriteExportReference(e, writeFails) ==
    LET r == UpdateStatusOf(Exec(e, execs[e]), stored[e], execs[e].phase, <<>>, writeFails) IN
    /\ pc[e] = "status"
    /\ execs' = [execs EXCEPT ![e] = r.exec.status]
    /\ stored' = [stored EXCEPT ![e] = r.stored]
    /\ pc' = [pc EXCEPT ![e] = "idle"]
    /\ last' = Call("UpdateExecutionStatus", e, execs[e].phase, <<>>, "",
                    IF writeFails THEN "status" ELSE "none", r.err, r.io, FALSE)
    /\ UNCHANGED <<objects, templateVars, componentVars>>

(***************************************************************************)
(* Templater                                                               *)
(***************************************************************************)
TemplateTypes == {"GoTemplate", "Spiff"}

\* the backends at hand: two implementations of the GoTemplate type-tag
Backends == { [type |-> "GoTemplate", id |-> "go1"],
              [type |-> "GoTemplate", id |-> "go2"] }

\* what the template of an executor renders to: an error of the backend, no
\* output, the item x, the items y and z
Templates == {"err", "nil", "x", "yz"}

\* lsv1alpha1.TemplateExecutor; executors are named by their position
TemplateExecutor(i, x) == [name |-> i, type |-> x.type, template |-> x.template]

ExecutorLists ==
    { [i \in DOMAIN l |-> TemplateExecutor(i, l[i])] :
        l \in SeqsUpTo([type : TemplateTypes, template : Templates], MaxExecutors) }

Pipelines == {"subinstallation", "deploy", "export"}

\* a variant in which the first backend of a type-tag stays registered
RECURSIVE NewFirstWins(_)
NewFirstWins(templaters) ==
    IF templaters = <<>> THEN <<>>
    ELSE LET n == Len(templaters)
             t == NewFirstWins(SubSeq(templaters, 1, n - 1))
             templater == templaters[n]
         IN  [ty \in DOMAIN t \cup {templater.type} |->
                 IF ty \in DOMAIN t THEN t[ty] ELSE templater]

\* template.New
RECURSIVE New(_)
New(templaters) ==
    IF templaters = <<>> THEN <<>>
    ELSE LET n == Len(templaters)
             t == New(SubSeq(templaters, 1, n - 1))
             templater == templaters[n]
         IN  [ty \in DOMAIN t \cup {templater.type} |->
                 IF ty = templater.type THEN templater ELSE t[ty]]

NilList == [isNil |-> TRUE, items |-> <<>>]

List(items) == [isNil |-> FALSE, items |-> items]

NilMap == [isNil |-> TRUE, exports |-> <<>>]

Map(m) == [isNil |-> FALSE, exports |-> m]

ErrUnknownTemplateType(type) == <<"unknown template type", type>>

\* the error of a backend, opaque to the pipelines: its text names the backend
\* and the executor
ErrBackend(templater, tmplExec) ==
    <<"template failed", templater.id, ToString(tmplExec.name)>>

\* the items the template of an executor renders to
ItemsOf(tmplExec) ==
    IF tmplExec.template = "x" THEN <<[name |-> "x", from |-> tmplExec.name]>>
    ELSE IF tmplExec.template = "yz"
    THEN <<[name |-> "y", from |-> tmplExec.name], [name |-> "z", from |-> tmplExec.name]>>
    ELSE <<>>

\* ExecutionTemplater.TemplateSubinstallationExecutions of a backend
BackendTemplateSubinstallationExecutions(templater, tmplExec, values) ==
    IF tmplExec.template = "err"
    THEN [err |-> ErrBackend(templater, tmplExec), output |-> NilList]
    ELSE IF tmplExec.template = "nil"
    THEN [err |-> NoErr, output |-> NilList]
    ELSE [err |-> NoErr, output |-> List(ItemsOf(tmplExec))]

\* ExecutionTemplater.TemplateDeployExecutions of a backend
BackendTemplateDeployExecutions(templater, tmplExec, values) ==
    IF tmplExec.template = "err"
    THEN [err |-> ErrBackend(templater, tmplExec), output |-> NilList]
    ELSE IF tmplExec.template = "nil"
    THEN [err |-> NoErr, output |-> NilList]
    ELSE [err |-> NoErr, output |-> List(ItemsOf(tmplExec))]

\* ExecutionTemplater.TemplateExportExecutions of a backend: the export names
\* of the template, each with the executor that rendered it as its value
BackendTemplateExportExecutions(templater, tmplExec) ==
    IF tmplExec.template = "err"
    THEN [err |-> ErrBackend(templater, tmplExec), output |-> NilMap]
    ELSE IF tmplExec.template = "nil"
    THEN [err |-> NoErr, output |-> NilMap]
    ELSE [err |-> NoErr,
          output |-> Map([k \in {it.name : it \in Range(ItemsOf(tmplExec))} |-> tmplExec.name])]

\* a component descriptor (list): nil, one that encodes, one that does not
Descriptors == {"nil", "ok", "unencodable"}

\* opts.Installation: nil, without and with a component descriptor reference,
\* and with a blueprint or component descriptor reference that does not serialize
Installations == {"nil", "blueprint", "blueprint+cd", "badblueprint", "blueprint+badcd"}

NilValue == <<>>

ErrEncode == <<"codec: cannot encode">>

\* serializeComponentDescriptor
serializeComponentDescriptor(cd) ==
    IF cd = "nil" THEN [val |-> NilValue, err |-> NoErr]
    ELSE IF cd = "unencodable" THEN [val |-> NilValue, err |-> ErrEncode]
    ELSE [val |-> <<"tree", "cd">>, err |-> NoErr]

\* a variant that swallows the encoding error of the list
serializeComponentDescriptorListLenient(cd) ==
    IF cd = "nil" THEN [val |-> NilValue, err |-> NoErr]
    ELSE IF cd = "unencodable" THEN [val |-> NilValue, err |-> NoErr]
    ELSE [val |-> <<"tree", "cdList">>, err |-> NoErr]

\* serializeComponentDescriptorList
serializeComponentDescriptorList(cd) ==
    IF cd = "nil" THEN [val |-> NilValue, err |-> NoErr]
    ELSE IF cd = "unencodable" THEN [val |-> NilValue, err |-> ErrEncode]
    ELSE [val |-> <<"tree", "cdList">>, err |-> NoErr]

\* a variant that leaves the blueprint definition out of the values
BuildValuesNoBlueprint(o) ==
    LET component == serializeComponentDescriptor(o.ComponentDescriptor)
        components == serializeComponentDescriptorList(o.ComponentDescriptors)
        base == [k \in {"imports", "cd", "components"} |->
                    IF k = "imports" THEN o.Imports
                    ELSE IF k = "cd" THEN component.val ELSE components.val]
        withBlueprint == [k \in DOMAIN base \cup {"blueprint"} |->
                    IF k = "blueprint" THEN <<"tree", "blueprintDef">> ELSE base[k]]
        withCd == [k \in DOMAIN withBlueprint \cup {"componentDescriptorDef"} |->
                    IF k = "componentDescriptorDef" THEN <<"tree", "cdDef">> ELSE withBlueprint[k]]
    IN  IF component.err # NoErr
        THEN [err |-> <<"error during serializing of the resolved components">> \o component.err,
              values |-> <<>>]
        ELSE IF components.err # NoErr
        THEN [err |-> <<"error during serializing of the component descriptor">> \o components.err,
              values |-> <<>>]
        ELSE IF o.Installation = "nil" THEN [err |-> NoErr, values |-> base]
        ELSE IF o.Installation = "badblueprint"
        THEN [err |-> <<"unable to serialize the blueprint definition">>, values |-> <<>>]
        ELSE IF o.Installation = "blueprint" THEN [err |-> NoErr, values |-> base]
        ELSE IF o.Installation = "blueprint+badcd"
        THEN [err |-> <<"unable to serialize the component descriptor definition">>, values |-> <<>>]
        ELSE [err |-> NoErr, values |-> withCd]

\* the values built at the head of TemplateSubinstallationExecutions and of
\* TemplateDeployExecutions
BuildValues(o) ==
    LET component == serializeComponentDescriptor(o.ComponentDescriptor)
        components == serializeComponentDescriptorList(o.ComponentDescriptors)
        base == [k \in {"imports", "cd", "components"} |->
                    IF k = "imports" THEN o.Imports
                    ELSE IF k = "cd" THEN component.val ELSE components.val]
        withBlueprint == [k \in DOMAIN base \cup {"blueprint"} |->
                    IF k = "blueprint" THEN <<"tree", "blueprintDef">> ELSE base[k]]
        withCd == [k \in DOMAIN withBlueprint \cup {"componentDescriptorDef"} |->
                    IF k = "componentDescriptorDef" THEN <<"tree", "cdDef">> ELSE withBlueprint[k]]
    IN  IF component.err # NoErr
        THEN [err |-> <<"error during serializing of the resolved components">> \o component.err,
              values |-> <<>>]
        ELSE IF components.err # NoErr
        THEN [err |-> <<"error during serializing of the component descriptor">> \o components.err,
              values |-> <<>>]
        ELSE IF o.Installation = "nil" THEN [err |-> NoErr, values |-> base]
        ELSE IF o.Installation = "badblueprint"
        THEN [err |-> <<"unable to serialize the blueprint definition">>, values |-> <<>>]
        ELSE IF o.Installation = "blueprint" THEN [err |-> NoErr, values |-> withBlueprint]
        ELSE IF o.Installation = "blueprint+badcd"
        THEN [err |-> <<"unable to serialize the component descriptor definition">>, values |-> <<>>]
        ELSE [err |-> NoErr, values |-> withCd]

\* one invocation of a backend: the position of the executor, the backend and
\* the values handed to it
Invocation(i, templater, values) == [pos |-> i, backend |-> templater.id, values |-> values]

\* a variant that goes on with the next executor after an error of a backend
RECURSIVE SubinstallationLoopContinue(_, _, _, _, _, _)
SubinstallationLoopContinue(registry, tmplExecs, values, i, installationTemplates, calls) ==
    IF i > Len(tmplExecs)
    THEN [out |-> List(installationTemplates), err |-> NoErr, calls |-> calls]
    ELSE LET tmplExec == tmplExecs[i] IN
         IF tmplExec.type \notin DOMAIN registry
         THEN [out |-> NilList, err |-> ErrUnknownTemplateType(tmplExec.type), calls |-> calls]
         ELSE LET templater == registry[tmplExec.type]
                  r == BackendTemplateSubinstallationExecutions(templater, tmplExec, values)
                  calls1 == Append(calls, Invocation(i, templater, values))
              IN  IF r.err # NoErr \/ r.output.isNil
                  THEN SubinstallationLoopContinue(registry, tmplExecs, values, i + 1,
                                                   installationTemplates, calls1)
                  ELSE SubinstallationLoopContinue(registry, tmplExecs, values, i + 1,
                                                   installationTemplates \o r.output.items, calls1)

\* the loop of TemplateSubinstallationExecutions from executor i on
RECURSIVE SubinstallationLoop(_, _, _, _, _, _)
SubinstallationLoop(registry, tmplExecs, values, i, installationTemplates, calls) ==
    IF i > Len(tmplExecs)
    THEN [out |-> List(installationTemplates), err |-> NoErr, calls |-> calls]
    ELSE LET tmplExec == tmplExecs[i] IN
         IF tmplExec.type \notin DOMAIN registry
         THEN [out |-> NilList, err |-> ErrUnknownTemplateType(tmplExec.type), calls |-> calls]
         ELSE LET templater == registry[tmplExec.type]
                  r == BackendTemplateSubinstallationExecutions(templater, tmplExec, values)
                  calls1 == Append(calls, Invocation(i, templater, values))
              IN  IF r.err # NoErr THEN [out |-> NilList, err |-> r.err, calls |-> calls1]
                  ELSE IF r.output.isNil
                  THEN SubinstallationLoop(registry, tmplExecs, values, i + 1,
                                           installationTemplates, calls1)
                  ELSE SubinstallationLoop(registry, tmplExecs, values, i + 1,
                                           installationTemplates \o r.output.items, calls1)

\* Templater.TemplateSubinstallationExecutions
TemplateSubinstallationExecutionsOf(registry, o) ==
    LET v == BuildValues(o) IN
    IF v.err # NoErr THEN [out |-> NilList, err |-> v.err, calls |-> <<>>, validated |-> <<>>]
    ELSE LET r == SubinstallationLoop(registry, o.Blueprint.SubinstallationExecutions,
                                      v.values, 1, <<>>, <<>>)
         IN  [out |-> r.out, err |-> r.err, calls |-> r.calls, validated |-> <<>>]

\* validation.ValidateDeployItemTemplateList(...).ToAggregate(): the positions
\* of the items whose name an earlier item of the list has
ValidateDeployItemTemplateList(list) ==
    LET dup == {i \in DOMAIN list : \E j \in 1..(i - 1) : list[j].name = list[i].name} IN
    IF dup = {} THEN NoErr ELSE <<"deployExecutions: duplicate value", dup>>

\* validateDeployItemList
validateDeployItemList(list) == ValidateDeployItemTemplateList(list)

\* a variant that takes a nil list of deploy items for a failure
RECURSIVE DeployLoopNilFails(_, _, _, _, _, _)
DeployLoopNilFails(registry, tmplExecs, values, i, deployItemTemplateList, calls) ==
    IF i > Len(tmplExecs)
    THEN [out |-> List(deployItemTemplateList), err |-> NoErr, calls |-> calls]
    ELSE LET tmplExec == tmplExecs[i] IN
         IF tmplExec.type \notin DOMAIN registry
         THEN [out |-> NilList, err |-> ErrUnknownTemplateType(tmplExec.type), calls |-> calls]
         ELSE LET templater == registry[tmplExec.type]
                  r == BackendTemplateDeployExecutions(templater, tmplExec, values)
                  calls1 == Append(calls, Invocation(i, templater, values))
              IN  IF r.err # NoErr THEN [out |-> NilList, err |-> r.err, calls |-> calls1]
                  ELSE IF r.output.isNil
                  THEN [out |-> NilList, err |-> <<"no deploy items">>, calls |-> calls1]
                  ELSE DeployLoopNilFails(registry, tmplExecs, values, i + 1,
                                          deployItemTemplateList \o r.output.items, calls1)

\* a variant that puts the items of an executor in front of the list
RECURSIVE DeployLoopPrepend(_, _, _, _, _, _)
DeployLoopPrepend(registry, tmplExecs, values, i, deployItemTemplateList, calls) ==
    IF i > Len(tmplExecs)
    THEN [out |-> List(deployItemTemplateList), err |-> NoErr, calls |-> calls]
    ELSE LET tmplExec == tmplExecs[i] IN
         IF tmplExec.type \notin DOMAIN registry
         THEN [out |-> NilList, err |-> ErrUnknownTemplateType(tmplExec.type), calls |-> calls]
         ELSE LET templater == registry[tmplExec.type]
                  r == BackendTemplateDeployExecutions(templater, tmplExec, values)
                  calls1 == Append(calls, Invocation(i, templater, values))
              IN  IF r.err # NoErr THEN [out |-> NilList, err |-> r.err, calls |-> calls1]
                  ELSE IF r.output.isNil
                  THEN DeployLoopPrepend(registry, tmplExecs, values, i + 1,
                                         deployItemTemplateList, calls1)
                  ELSE DeployLoopPrepend(registry, tmplExecs, values, i + 1,
                                         r.output.items \o deployItemTemplateList, calls1)

\* the loop of TemplateDeployExecutions from executor i on
RECURSIVE DeployLoop(_, _, _, _, _, _)
DeployLoop(registry, tmplExecs, values, i, deployItemTemplateList, calls) ==
    IF i > Len(tmplExecs)
    THEN [out |-> List(deployItemTemplateList), err |-> NoErr, calls |-> calls]
    ELSE LET tmplExec == tmplExecs[i] IN
         IF tmplExec.type \notin DOMAIN registry
         THEN [out |-> NilList, err |-> ErrUnknownTemplateType(tmplExec.type), calls |-> calls]
         ELSE LET templater == registry[tmplExec.type]
                  r == BackendTemplateDeployExecutions(templater, tmplExec, values)
                  calls1 == Append(calls, Invocation(i, templater, values))
              IN  IF r.err # NoErr THEN [out |-> NilList, err |-> r.err, calls |-> calls1]
                  ELSE IF r.output.isNil
                  THEN DeployLoop(registry, tmplExecs, values, i + 1,
                                  deployItemTemplateList, calls1)
                  ELSE DeployLoop(registry, tmplExecs, values, i + 1,
                                  deployItemTemplateList \o r.output.items, calls1)

\* a variant that returns the aggregated list also when the validator rejects it
TemplateDeployExecutionsOfUnchecked(registry, o) ==
    LET v == BuildValues(o) IN
    IF v.err # NoErr THEN [out |-> NilList, err |-> v.err, calls |-> <<>>, validated |-> <<>>]
    ELSE LET r == DeployLoop(registry, o.Blueprint.DeployExecutions, v.values, 1, <<>>, <<>>) IN
         IF r.err # NoErr
         THEN [out |-> NilList, err |-> r.err, calls |-> r.calls, validated |-> <<>>]
         ELSE [out |-> r.out, err |-> validateDeployItemList(r.out.items), calls |-> r.calls,
               validated |-> <<r.out.items>>]

\* Templater.TemplateDeployExecutions; validated: the lists handed to the
\* validator
TemplateDeployExecutionsOf(registry, o) ==
    LET v == BuildValues(o) IN
    IF v.err # NoErr THEN [out |-> NilList, err |-> v.err, calls |-> <<>>, validated |-> <<>>]
    ELSE LET r == DeployLoop(registry, o.Blueprint.DeployExecutions, v.values, 1, <<>>, <<>>) IN
         IF r.err # NoErr
         THEN [out |-> NilList, err |-> r.err, calls |-> r.calls, validated |-> <<>>]
         ELSE LET verr == validateDeployItemList(r.out.items) IN
              IF verr # NoErr
              THEN [out |-> NilList, err |-> verr, calls |-> r.calls,
                    validated |-> <<r.out.items>>]
              ELSE [out |-> r.out, err |-> NoErr, calls |-> r.calls,
                    validated |-> <<r.out.items>>]

\* utils.MergeMaps
MergeMaps(a, b) ==
    [k \in DOMAIN a \cup DOMAIN b |-> IF k \in DOMAIN b THEN b[k] ELSE a[k]]

\* a variant that skips an executor of an unregistered type
RECURSIVE ExportLoopSkipUnknown(_, _, _, _, _)
ExportLoopSkipUnknown(registry, tmplExecs, i, exportData, calls) ==
    IF i > Len(tmplExecs)
    THEN [out |-> Map(exportData), err |-> NoErr, calls |-> calls]
    ELSE LET tmplExec == tmplExecs[i] IN
         IF tmplExec.type \notin DOMAIN registry
         THEN ExportLoopSkipUnknown(registry, tmplExecs, i + 1, exportData, calls)
         ELSE LET templater == registry[tmplExec.type]
                  r == BackendTemplateExportExecutions(templater, tmplExec)
                  calls1 == Append(calls, Invocation(i, templater, NilValue))
              IN  IF r.err # NoErr THEN [out |-> NilMap, err |-> r.err, calls |-> calls1]
                  ELSE ExportLoopSkipUnknown(registry, tmplExecs, i + 1,
                                             MergeMaps(exportData, r.output.exports), calls1)

\* a variant that merges the accumulated exports over the ones of the executor
RECURSIVE ExportLoopLeftBiased(_, _, _, _, _)
ExportLoopLeftBiased(registry, tmplExecs, i, exportData, calls) ==
    IF i > Len(tmplExecs)
    THEN [out |-> Map(exportData), err |-> NoErr, calls |-> calls]
    ELSE LET tmplExec == tmplExecs[i] IN
         IF tmplExec.type \notin DOMAIN registry
         THEN [out |-> NilMap, err |-> ErrUnknownTemplateType(tmplExec.type), calls |-> calls]
         ELSE LET templater == registry[tmplExec.type]
                  r == BackendTemplateExportExecutions(templater, tmplExec)
                  calls1 == Append(calls, Invocation(i, templater, NilValue))
              IN  IF r.err # NoErr THEN [out |-> NilMap, err |-> r.err, calls |-> calls1]
                  ELSE ExportLoopLeftBiased(registry, tmplExecs, i + 1,
                                            MergeMaps(r.output.exports, exportData), calls1)

\* the loop of TemplateExportExecutions from executor i on
RECURSIVE ExportLoop(_, _, _, _, _)
ExportLoop(registry, tmplExecs, i, exportData, calls) ==
    IF i > Len(tmplExecs)
    THEN [out |-> Map(exportData), err |-> NoErr, calls |-> calls]
    ELSE LET tmplExec == tmplExecs[i] IN
         IF tmplExec.type \notin DOMAIN registry
         THEN [out |-> NilMap, err |-> ErrUnknownTemplateType(tmplExec.type), calls |-> calls]
         ELSE LET templater == registry[tmplExec.type]
                  r == BackendTemplateExportExecutions(templater, tmplExec)
                  calls1 == Append(calls, Invocation(i, templater, NilValue))
              IN  IF r.err # NoErr THEN [out |-> NilMap, err |-> r.err, calls |-> calls1]
                  ELSE ExportLoop(registry, tmplExecs, i + 1,
                                  MergeMaps(exportData, r.output.exports), calls1)

\* a variant that starts from a nil map and so returns nil when no executor
\* exported anything
TemplateExportExecutionsOfNilMap(registry, blueprint) ==
    LET r == ExportLoop(registry, blueprint.ExportExecutions, 1, <<>>, <<>>) IN
    [out |-> IF r.err = NoErr /\ DOMAIN r.out.exports = {} THEN NilMap ELSE r.out,
     err |-> r.err, calls |-> r.calls, validated |-> <<>>]

\* Templater.TemplateExportExecutions
TemplateExportExecutionsOf(registry, blueprint) ==
    LET r == ExportLoop(registry, blueprint.ExportExecutions, 1, <<>>, <<>>) IN
    [out |-> r.out, err |-> r.err, calls |-> r.calls, validated |-> <<>>]

\* the record of one run of a pipeline; rerun: the run before it was a run of
\* the same pipeline
Run(pipeline, r) ==
    [pipeline |-> pipeline, out |-> r.out, err |-> r.err, calls |-> r.calls,
     validated |-> r.validated, rerun |-> (run.pipeline = pipeline)]

NoRun ==
    [pipeline |-> "none", out |-> NilList, err |-> NoErr, calls |-> <<>>, validated |-> <<>>,
     rerun |-> FALSE]

\* a variant of a Templater that keeps the list of installation templates from
\* one run of the pipeline to the next
TemplateSubinstallationExecutionsKeepList ==
    /\ run' = Run("subinstallation",
                  LET r == TemplateSubinstallationExecutionsOf(impl, opts) IN
                  IF run.pipeline = "subinstallation" /\ ~run.out.isNil /\ ~r.out.isNil
                  THEN [r EXCEPT !.out = List(run.out.items \o r.out.items)]
                  ELSE r)
    /\ UNCHANGED <<newArgs, impl, opts, execVars, componentVars>>

TemplateSubinstallationExecutions ==
    /\ run' = Run("subinstallation", TemplateSubinstallationExecutionsOf(impl, opts))
    /\ UNCHANGED <<newArgs, impl, opts, execVars, componentVars>>

TemplateDeployExecutions ==
    /\ run' = Run("deploy", TemplateDeployExecutionsOf(impl, opts))
    /\ UNCHANGED <<newArgs, impl, opts, execVars, componentVars>>

TemplateExportExecutions ==
    /\ run' = Run("export", TemplateExportExecutionsOf(impl, opts.Blueprint))
    /\ UNCHANGED <<newArgs, impl, opts, execVars, componentVars>>

(***************************************************************************)
(* BlueprintBuilder                                                        *)
(***************************************************************************)
KubernetesClusterTargetType == "landscaper.gardener.cloud/kubernetes-cluster"

\* the names of import parameters and the elementary types at hand
ImportNames == {"targetCluster", "replicas"}

ElementaryTypes == {"integer", "string"}

\* fmt.Sprintf("{ \"type\": \"%s\" }", paramType); no schema is the empty tuple
JSONSchemaDefinition(paramType) == <<"{ \"type\": \"", paramType, "\" }">>

NoSchema == <<>>

\* v1alpha1.ImportDefinition
ImportDefinition(name, targetType, schema) ==
    [Name |-> name, TargetType |-> targetType, Schema |-> schema, Required |-> TRUE]

ImportDefinitions ==
    { ImportDefinition(name, KubernetesClusterTargetType, NoSchema) : name \in ImportNames }
    \cup { ImportDefinition(name, "", JSONSchemaDefinition(t)) :
               name \in ImportNames, t \in ElementaryTypes }

\* v1alpha1.Blueprint: the deploy executions and the imports
NoBlueprint == [DeployExecutions |-> <<>>, Imports |-> <<>>]

\* BlueprintBuilder.existsImport
existsImport(b, name) == \E i \in DOMAIN b.Imports : b.Imports[i].Name = name

\* a variant that puts the definition in the place of the one of its name
AddImportReplace(b, importDefinition) ==
    IF existsImport(b, importDefinition.Name)
    THEN [b EXCEPT !.Imports = [i \in DOMAIN @ |->
              IF @[i].Name = importDefinition.Name THEN importDefinition ELSE @[i]]]
    ELSE [b EXCEPT !.Imports = Append(@, importDefinition)]

\* BlueprintBuilder.AddImport
AddImport(b, importDefinition) ==
    IF existsImport(b, importDefinition.Name) THEN b
    ELSE [b EXCEPT !.Imports = Append(@, importDefinition)]

\* BlueprintBuilder.AddImports
RECURSIVE AddImports(_, _)
AddImports(b, importDefinitions) ==
    IF importDefinitions = <<>> THEN b
    ELSE AddImports(AddImport(b, Head(importDefinitions)), Tail(importDefinitions))

\* BlueprintBuilder.AddImportForTarget
AddImportForTarget(b, paramName) ==
    AddImport(b, ImportDefinition(paramName, KubernetesClusterTargetType, NoSchema))

\* BlueprintBuilder.AddImportForElementaryType
AddImportForElementaryType(b, paramName, paramType) ==
    AddImport(b, ImportDefinition(paramName, "", JSONSchemaDefinition(paramType)))

\* the record of one command or call on a BlueprintBuilder
Cmd(op, name, type, defs, err) ==
    [op |-> op, name |-> name, type |-> type, defs |-> defs, err |-> err]

NoCmd == Cmd("none", "", "", <<>>, NoErr)

\* no component directory and no BlueprintBuilder
NoComponent ==
    /\ blueprintYaml = NoBlueprint
    /\ executionFiles = {}
    /\ builder = NoBlueprint
    /\ cmd = NoCmd

\* b.AddImport(importDefinition)
BuilderAddImport(importDefinition) ==
    /\ builder' = AddImport(builder, importDefinition)
    /\ cmd' = Cmd("AddImport", importDefinition.Name, "", <<importDefinition>>, NoErr)
    /\ UNCHANGED <<blueprintYaml, executionFiles, execVars, templateVars>>

\* b.AddImports(importDefinitions)
BuilderAddImports(importDefinitions) ==
    /\ builder' = AddImports(builder, importDefinitions)
    /\ cmd' = Cmd("AddImports", "", "", importDefinitions, NoErr)
    /\ UNCHANGED <<blueprintYaml, executionFiles, execVars, templateVars>>

\* b.AddImportForTarget(paramName)
BuilderAddImportForTarget(paramName) ==
    /\ builder' = AddImportForTarget(builder, paramName)
    /\ cmd' = Cmd("AddImportForTarget", paramName, "", <<>>, NoErr)
    /\ UNCHANGED <<blueprintYaml, executionFiles, execVars, templateVars>>

\* b.AddImportForElementaryType(paramName, paramType)
BuilderAddImportForElementaryType(paramName, paramType) ==
    /\ builder' = AddImportForElementaryType(builder, paramName, paramType)
    /\ cmd' = Cmd("AddImportForElementaryType", paramName, paramType, <<>>, NoErr)
    /\ UNCHANGED <<blueprintYaml, executionFiles, execVars, templateVars>>

(***************************************************************************)
(* add manifest deployitem                                                 *)
(***************************************************************************)
\* the deploy item names at hand; the last one does not match
\* identityKeyValidationRegexp
DeployItemNames == {"nginx", "redis", "Nginx_"}

\* identityKeyValidationRegexp.Match: ^[a-z0-9]([-_+a-z0-9]*[a-z0-9])?$
IdentityKeyValid(name) == name \in {"nginx", "redis"}

\* util.ExecutionFileName
ExecutionFileName(deployItemName) == <<"deploy-execution-", deployItemName, ".yaml">>

\* a variant that finds no deploy execution
ExistsDeployExecutionNever(b, executionName) == FALSE

\* BlueprintBuilder.ExistsDeployExecution
ExistsDeployExecution(b, executionName) ==
    \E i \in DOMAIN b.DeployExecutions : b.DeployExecutions[i].Name = executionName

\* BlueprintBuilder.AddDeployExecution
AddDeployExecution(b, deployItemName) ==
    [b EXCEPT !.DeployExecutions =
        Append(@, [Name |-> deployItemName, Type |-> "GoTemplate",
                   File |-> <<"/">> \o ExecutionFileName(deployItemName)])]

\* the orders in which a range over the map of import definitions may go
Orders(S) == {order \in [1..Cardinality(S) -> S] : Range(order) = S}

\* BlueprintBuilder.AddImportsFromMap, the range over the map going in order
AddImportsFromMap(b, order) == AddImports(b, order)

\* the --manifest-file arguments: none, a file that does not exist, a
\* directory, a file that is not YAML, a manifest
Manifests == {"none", "missing", "directory", "invalid", "ok"}

\* the --import-param arguments, by what ParseImportDefinitions makes of
\* them: an error, or the map of import definitions (given by its values)
ParsedImportParams(defs) == [parses |-> TRUE, importDefinitions |-> defs]

ParseError == [parses |-> FALSE, importDefinitions |-> {}]

ImportParams ==
    { ParseError,
      ParsedImportParams({}),
      ParsedImportParams({ImportDefinition("replicas", "", JSONSchemaDefinition("integer"))}),
      ParsedImportParams({ImportDefinition("replicas", "", JSONSchemaDefinition("integer")),
                          ImportDefinition("targetCluster", "", JSONSchemaDefinition("string"))}) }

\* the failure of the file system injected into one command: none, the stat
\* of the execution file, its creation, the writing of it, the reading and
\* the writing of the blueprint
IOFaults == {"none", "stat", "create", "writeExecution", "read", "write"}

\* the options of one command
Options ==
    [deployItemName : DeployItemNames, clusterParam : {"", "targetCluster"},
     files : Manifests, importParams : ImportParams]

ErrParse == <<"invalid parameter definition">>

ErrName == <<"the deploy item name must consist of lower case alphanumeric characters">>

ErrClusterParam == <<"cluster-param is missing">>

ErrNoManifest == <<"no manifest files specified">>

ErrManifestMissing == <<"manifest file does not exist">>

ErrManifestDirectory == <<"manifest file is a directory">>

ErrManifestInvalid == <<"yaml: cannot unmarshal">>

ErrAlreadyAdded == <<"Deploy item was already added">>

ErrAlreadyContains == <<"The blueprint already contains a deploy item">>

ErrIO(fault) == <<"io", fault>>

\* addManifestDeployItemOptions.validate
validate(files, o, fault) ==
    IF ~IdentityKeyValid(o.deployItemName) THEN ErrName
    ELSE IF o.clusterParam = "" THEN ErrClusterParam
    ELSE IF o.files = "none" THEN ErrNoManifest
    ELSE IF o.files = "missing" THEN ErrManifestMissing
    ELSE IF o.files = "directory" THEN ErrManifestDirectory
    ELSE IF fault = "stat" THEN ErrIO(fault)
    ELSE IF o.deployItemName \in files THEN ErrAlreadyAdded
    ELSE NoErr

\* addManifestDeployItemOptions.Complete
Complete(files, o, fault) ==
    IF ~o.importParams.parses THEN ErrParse ELSE validate(files, o, fault)

\* addManifestDeployItemOptions.createExecutionFile: the execution files
\* after it and its error
createExecutionFile(files, o, fault) ==
    IF o.files = "invalid" THEN [files |-> files, err |-> ErrManifestInvalid]
    ELSE IF fault = "create" THEN [files |-> files, err |-> ErrIO(fault)]
    ELSE IF fault = "writeExecution"
    THEN [files |-> files \cup {o.deployItemName}, err |-> ErrIO(fault)]
    ELSE [files |-> files \cup {o.deployItemName}, err |-> NoErr]

\* addManifestDeployItemOptions.run on the blueprint file holding bp and the
\* execution files: both after it and its error
runOf(bp, files, o, order, fault) ==
    LET c == createExecutionFile(files, o, fault) IN
    IF c.err # NoErr THEN [blueprint |-> bp, files |-> c.files, err |-> c.err]
    ELSE IF fault = "read" THEN [blueprint |-> bp, files |-> c.files, err |-> ErrIO(fault)]
    ELSE IF ExistsDeployExecution(bp, o.deployItemName)
    THEN [blueprint |-> bp, files |-> c.files, err |-> ErrAlreadyContains]
    ELSE LET b1 == AddDeployExecution(bp, o.deployItemName)
             b2 == AddImportForTarget(b1, o.clusterParam)
             b3 == AddImportsFromMap(b2, order)
         IN  IF fault = "write"
             THEN [blueprint |-> bp, files |-> c.files, err |-> ErrIO(fault)]
             ELSE [blueprint |-> b3, files |-> c.files, err |-> NoErr]

\* the command: Complete, then run unless Complete failed
AddManifestDeployItemOf(bp, files, o, order, fault) ==
    LET err == Complete(files, o, fault) IN
    IF err # NoErr THEN [blueprint |-> bp, files |-> files, err |-> err]
    ELSE runOf(bp, files, o, order, fault)

\* landscaper-cli component add manifest deployitem
AddManifestDeployItem(o, order, fault) ==
    LET r == AddManifestDeployItemOf(blueprintYaml, executionFiles, o, order, fault) IN
    /\ blueprintYaml' = r.blueprint
    /\ executionFiles' = r.files
    /\ cmd' = Cmd("add manifest deployitem", o.deployItemName, "", <<>>, r.err)
    /\ UNCHANGED <<builder, execVars, templateVars>>

\* the blueprint with the executor list l for the pipeline p
Blueprint(p, l) ==
    [SubinstallationExecutions |-> IF p = "subinstallation" THEN l ELSE <<>>,
     DeployExecutions |-> IF p = "deploy" THEN l ELSE <<>>,
     ExportExecutions |-> IF p = "export" THEN l ELSE <<>>]

NoOpts ==
    [Imports |-> <<>>, Installation |-> "nil", Blueprint |-> Blueprint("deploy", <<>>),
     ComponentDescriptor |-> "nil", ComponentDescriptors |-> "nil"]

\* the export of an execution as an earlier reconciliation left it in the store
ExportOf(e, values) ==
    LET ex == Exec(e, NewStatus)
        do == NewDataObject(ex, values)
    IN  MutateExport(ex, do, Build(do).raw, FALSE).obj

\* NewOperation(op, exec, forceReconcile) for the execution ExecA; the store
\* already holds the export of ExecB.
InitExec ==
    /\ execs = [e \in {ExecA} |-> NewStatus]
    /\ stored = [e \in Executions |-> NewStatus]
    /\ objects = {ExportOf(ExecB, "v1")}
    /\ last = NoCall
    /\ pc = [e \in {ExecA} |-> "idle"]
    /\ loop = NoLoop
    /\ NoComponent

Init ==
    /\ InitExec
    /\ newArgs = <<>>
    /\ impl = New(newArgs)
    /\ opts = NoOpts
    /\ run = NoRun

DoUpdateStatus ==
    \E e \in DOMAIN execs, phase \in ExecutionPhases,
       conds \in SeqsUpTo(Condition, MaxConds), writeFails \in BOOLEAN :
        UpdateStatus(e, phase, conds, writeFails) /\ UNCHANGED loop

DoCreateOrUpdateExportReference ==
    \E e \in DOMAIN execs, values \in Values, fail \in Failures :
        CreateOrUpdateExportReference(e, values, fail) /\ UNCHANGED loop

Next ==
    \/ DoUpdateStatus
    \/ DoCreateOrUpdateExportReference

Spec == Init /\ [][Next]_vars

\* the caller retries CreateOrUpdateExportReference on the Operation of ExecA
\* with the values it has, and the store fails at most MaxFaults more times
InitRetry ==
    /\ \E phase \in ExecutionPhases :
          /\ execs = [e \in {ExecA} |-> [NewStatus EXCEPT !.phase = phase]]
          /\ stored = [e \in Executions |->
                          IF e = ExecA THEN [NewStatus EXCEPT !.phase = phase] ELSE NewStatus]
    /\ objects = {ExportOf(ExecB, "v1")}
    /\ last = NoCall
    /\ pc = [e \in {ExecA} |-> "idle"]
    /\ \E values \in Values, faults \in 0..MaxFaults :
          loop = [values |-> values, faults |-> faults, failed |-> {}, done |-> FALSE]
    /\ NoComponent
    /\ newArgs = <<>>
    /\ impl = New(newArgs)
    /\ opts = NoOpts
    /\ run = NoRun

\* one call of the retrying caller: CreateOrUpdateExportReference with the
\* values of the caller; the store may fail while it has failures left
DoRetryExport ==
    \E fail \in Failures :
        LET r == CreateOrUpdateExportReferenceOf(Exec(ExecA, execs[ExecA]), stored[ExecA],
                                                 objects, loop.values, fail)
            injected == r.err \in {ErrOwnerRef, ErrStore, ErrStatus}
        IN  /\ ~loop.done
            /\ fail # "none" => loop.faults > 0
            /\ CreateOrUpdateExportReference(ExecA, loop.values, fail)
            /\ loop' = [loop EXCEPT !.faults = IF injected THEN @ - 1 ELSE @,
                                     !.failed = IF injected THEN @ \cup {fail} ELSE @,
                                     !.done = (r.err = NoErr)]

NextRetry == DoRetryExport

\* the caller goes on retrying: a call that can be made is made
RetrySpec == InitRetry /\ [][NextRetry]_vars /\ WF_vars(DoRetryExport)

\* one Operation for each of the executions, the store holding no data object
InitConcurrent ==
    /\ execs = [e \in Executions |-> NewStatus]
    /\ stored = [e \in Executions |-> NewStatus]
    /\ objects = {}
    /\ last = NoCall
    /\ pc = [e \in Executions |-> "idle"]
    /\ loop = NoLoop
    /\ NoComponent
    /\ newArgs = <<>>
    /\ impl = New(newArgs)
    /\ opts = NoOpts
    /\ run = NoRun

\* an UpdateStatus that supplies no conditions
DoUpdatePhase ==
    \E e \in DOMAIN execs, phase \in ExecutionPhases, writeFails \in BOOLEAN :
        UpdateStatus(e, phase, <<>>, writeFails) /\ UNCHANGED loop

DoUpsertExport ==
    \E e \in DOMAIN execs, values \in Values, fail \in Failures \ {"status"} :
        UpsertExport(e, values, fail) /\ UNCHANGED loop

DoWriteExportReference ==
    \E e \in DOMAIN execs, writeFails \in BOOLEAN :
        WriteExportReference(e, writeFails) /\ UNCHANGED loop

\* the executions are processed concurrently, the calls on the Operation of
\* one execution one after the other: the store operations of the calls on
\* different executions interleave
NextConcurrent ==
    \/ DoUpdatePhase
    \/ DoUpsertExport
    \/ DoWriteExportReference

ConcurrentSpec == InitConcurrent /\ [][NextConcurrent]_vars

\* no two backends of the sequence advertise the same type-tag
UniqueTypes(t) == \A i, j \in DOMAIN t : t[i].type = t[j].type => i = j

\* a Templater constructed from up to MaxTemplaters backends of distinct
\* type-tags and the options of one render
InitTemplate ==
    /\ execs = [e \in {ExecA} |-> NewStatus]
    /\ stored = [e \in Executions |-> NewStatus]
    /\ objects = {}
    /\ last = NoCall
    /\ pc = [e \in {ExecA} |-> "idle"]
    /\ loop = NoLoop
    /\ NoComponent
    /\ newArgs \in {t \in SeqsUpTo(Backends, MaxTemplaters) : UniqueTypes(t)}
    /\ impl = New(newArgs)
    /\ \E p \in Pipelines, l \in ExecutorLists,
          cd \in Descriptors, cds \in Descriptors, inst \in Installations :
            opts = [Imports |-> <<"imports">>, Installation |-> inst, Blueprint |-> Blueprint(p, l),
                    ComponentDescriptor |-> cd, ComponentDescriptors |-> cds]
    /\ run = NoRun

NextTemplate ==
    \/ TemplateSubinstallationExecutions
    \/ TemplateDeployExecutions
    \/ TemplateExportExecutions

TemplateSpec == InitTemplate /\ [][NextTemplate]_vars

\* a Templater constructed from up to MaxTemplaters backends, several of which
\* may advertise the same type-tag, and a blueprint to render without an
\* installation and without component descriptors
InitRegistry ==
    /\ execs = [e \in {ExecA} |-> NewStatus]
    /\ stored = [e \in Executions |-> NewStatus]
    /\ objects = {}
    /\ last = NoCall
    /\ pc = [e \in {ExecA} |-> "idle"]
    /\ loop = NoLoop
    /\ NoComponent
    /\ newArgs \in SeqsUpTo(Backends, MaxTemplaters)
    /\ impl = New(newArgs)
    /\ \E p \in Pipelines, l \in ExecutorLists :
            opts = [Imports |-> <<"imports">>, Installation |-> "nil", Blueprint |-> Blueprint(p, l),
                    ComponentDescriptor |-> "nil", ComponentDescriptors |-> "nil"]
    /\ run = NoRun

RegistrySpec == InitRegistry /\ [][NextTemplate]_vars

\* the blueprints whose deploy executions are those of a list of valid deploy
\* item names without a duplicate
RECURSIVE WithDeployExecutions(_, _)
WithDeployExecutions(b, names) ==
    IF names = <<>> THEN b
    ELSE WithDeployExecutions(AddDeployExecution(b, Head(names)), Tail(names))

\* a component directory whose blueprint has no deploy execution twice; an
\* execution file may lack its deploy execution and a deploy execution its
\* file
InitComponent ==
    /\ execs = [e \in {ExecA} |-> NewStatus]
    /\ stored = [e \in Executions |-> NewStatus]
    /\ objects = {}
    /\ last = NoCall
    /\ pc = [e \in {ExecA} |-> "idle"]
    /\ loop = NoLoop
    /\ newArgs = <<>>
    /\ impl = New(newArgs)
    /\ opts = NoOpts
    /\ run = NoRun
    /\ \E names \in Orders({"nginx", "redis"}) \cup Orders({"nginx"}) \cup Orders({}) :
          blueprintYaml = WithDeployExecutions(NoBlueprint, names)
    /\ executionFiles \in SUBSET {"nginx", "redis"}
    /\ builder = NoBlueprint
    /\ cmd = NoCmd

DoAddManifestDeployItem ==
    \E o \in Options, fault \in IOFaults :
        \E order \in Orders(o.importParams.importDefinitions) :
            AddManifestDeployItem(o, order, fault)

NextComponent == DoAddManifestDeployItem

ComponentSpec == InitComponent /\ [][NextComponent]_vars

\* the import names of the list are pairwise different
UniqueImportNames(imports) ==
    \A i, j \in DOMAIN imports : imports[i].Name = imports[j].Name => i = j

\* NewBlueprintBuilder(blueprint) for a blueprint of at most MaxImports
\* imports of pairwise different names
InitBuilder ==
    /\ execs = [e \in {ExecA} |-> NewStatus]
    /\ stored = [e \in Executions |-> NewStatus]
    /\ objects = {}
    /\ last = NoCall
    /\ pc = [e \in {ExecA} |-> "idle"]
    /\ loop = NoLoop
    /\ newArgs = <<>>
    /\ impl = New(newArgs)
    /\ opts = NoOpts
    /\ run = NoRun
    /\ blueprintYaml = NoBlueprint
    /\ executionFiles = {}
    /\ \E imports \in SeqsUpTo(ImportDefinitions, MaxImports) :
          /\ UniqueImportNames(imports)
          /\ builder = [NoBlueprint EXCEPT !.Imports = imports]
    /\ cmd = NoCmd

DoAddImport ==
    \E importDefinition \in ImportDefinitions : BuilderAddImport(importDefinition)

DoAddImports ==
    \E importDefinitions \in SeqsUpTo(ImportDefinitions, MaxImports) :
        BuilderAddImports(importDefinitions)

DoAddImportForTarget ==
    \E paramName \in ImportNames : BuilderAddImportForTarget(paramName)

DoAddImportForElementaryType ==
    \E paramName \in ImportNames, paramType \in ElementaryTypes :
        BuilderAddImportForElementaryType(paramName, paramType)

NextBuilder ==
    \/ DoAddImport
    \/ DoAddImports
    \/ DoAddImportForTarget
    \/ DoAddImportForElementaryType

BuilderSpec == InitBuilder /\ [][NextBuilder]_vars

(***************************************************************************)
(* Properties of the execution state controller (under Spec)               *)
(***************************************************************************)
OwnerOf(e) == [namespace |-> e.namespace, name |-> e.name]

\* the export objects of the store that the execution e owns
OwnedBy(objs, e) == {o \in objs : o.owner = OwnerOf(e)}

KeysOf(objs) == {[name |-> o.name, namespace |-> o.namespace] : o \in objs}

IsPublish(call) == call.op = "CreateOrUpdateExportReference"

\* C1: a CreateOrUpdateExportReference that follows a successful one of the
\* same execution with the same values leaves exactly one export object of the
\* execution in the store, under the name and namespace it had after the first
\* call, adds no object to the store, and leaves the export reference of the
\* execution as the first call set it.
C1_PublishExportIdempotent ==
    [][(IsPublish(last') /\ last'.again) =>
        LET e == last'.exec IN
        /\ Cardinality(OwnedBy(objects', e)) = 1
        /\ KeysOf(OwnedBy(objects', e)) = KeysOf(OwnedBy(objects, e))
        /\ Cardinality(objects') = Cardinality(objects)
        /\ execs'[e].exportReference = execs[e].exportReference]_vars

C1_Witness ==
    /\ IsPublish(last)
    /\ last.again
    /\ last.err = NoErr
    /\ Cardinality(OwnedBy(objects, last.exec)) = 1
    /\ execs[last.exec].exportReference \in KeysOf(OwnedBy(objects, last.exec))

TypesOf(conditions) == {conditions[i].type : i \in DOMAIN conditions}

FirstPos(conditions, t) ==
    CHOOSE i \in DOMAIN conditions :
        /\ conditions[i].type = t
        /\ \A j \in DOMAIN conditions : conditions[j].type = t => i <= j

LastOfType(conditions, t) ==
    conditions[CHOOSE i \in DOMAIN conditions :
                  /\ conditions[i].type = t
                  /\ \A j \in DOMAIN conditions : conditions[j].type = t => j <= i]

\* C6: UpdateStatus sets the phase of the execution to the supplied phase, and
\* the conditions after the call are the conditions before it, each replaced
\* at its position by the supplied condition of its type if there is one,
\* followed by the supplied conditions of new types in the order supplied.
C6_UpdateStatusMerge ==
    [][(last'.op = "UpdateStatus") =>
        LET e == last'.exec
            old == execs[e].conditions
            new == execs'[e].conditions
            sup == last'.conds
        IN  /\ execs'[e].phase = last'.phase
            /\ Len(new) = Len(old) + Cardinality(TypesOf(sup) \ TypesOf(old))
            /\ \A i \in 1..Len(old) :
                  new[i] = IF old[i].type \in TypesOf(sup)
                           THEN LastOfType(sup, old[i].type) ELSE old[i]
            /\ \A i \in (Len(old) + 1)..Len(new) :
                  /\ new[i].type \in TypesOf(sup) \ TypesOf(old)
                  /\ new[i] = LastOfType(sup, new[i].type)
            /\ \A i, j \in (Len(old) + 1)..Len(new) :
                  i < j => FirstPos(sup, new[i].type) < FirstPos(sup, new[j].type)]_vars

\* a single supplied condition has replaced the first of two conditions, and
\* the phase has moved away from the initial one
C6_Witness ==
    /\ last.op = "UpdateStatus"
    /\ Len(last.conds) = 1
    /\ Len(execs[last.exec].conditions) = 2
    /\ execs[last.exec].conditions[1] = last.conds[1]
    /\ execs[last.exec].phase = "Progressing"

BeforeStatusErrors == {ErrBuild, ErrOwnerRef, ErrStore}

\* C8: a CreateOrUpdateExportReference whose values do not build, whose owner
\* reference cannot be set or whose data object write fails returns the error
\* of that step, issues no status write and leaves the execution (its export
\* reference with it) and the stored status as they were.
C8_PublishExportFailure ==
    [][IsPublish(last') =>
        /\ (last'.values = "chan") => (last'.err = ErrBuild)
        /\ (last'.values # "chan" /\ last'.fail = "owner") => (last'.err = ErrOwnerRef)
        /\ (last'.values # "chan" /\ last'.fail = "store") => (last'.err = ErrStore)
        /\ (last'.err \in BeforeStatusErrors) =>
              /\ execs'[last'.exec].exportReference = execs[last'.exec].exportReference
              /\ execs' = execs
              /\ stored' = stored
              /\ "UpdateExecutionStatus" \notin Range(last'.io)]_vars

C8_Witness ==
    /\ IsPublish(last)
    /\ last.err = ErrOwnerRef
    /\ last.io = <<"CreateOrUpdateDataObject">>
    /\ execs[last.exec].exportReference = NoRef
    /\ OwnedBy(objects, last.exec) = {}

\* C9: after a successful CreateOrUpdateExportReference the export reference
\* of the execution is the name and namespace of an export object of the store
\* that holds the values, one status write was issued, after the upsert, and
\* stored the status of the execution, whose phase and conditions are the ones
\* from before the call.
C9_PublishExportSuccess ==
    [][(IsPublish(last') /\ last'.err = NoErr) =>
        LET e == last'.exec
            ref == execs'[e].exportReference
        IN  /\ \E o \in OwnedBy(objects', e) :
                  /\ ref = [name |-> o.name, namespace |-> o.namespace]
                  /\ o.data = last'.values
            /\ last'.io = <<"CreateOrUpdateDataObject", "UpdateExecutionStatus">>
            /\ stored'[e] = execs'[e]
            /\ execs'[e].phase = execs[e].phase
            /\ execs'[e].conditions = execs[e].conditions]_vars

C9_Witness ==
    /\ IsPublish(last)
    /\ last.err = NoErr
    /\ execs[last.exec].phase = "Progressing"
    /\ Len(execs[last.exec].conditions) = 2
    /\ execs[last.exec].exportReference # NoRef
    /\ stored[last.exec] = execs[last.exec]

\* C10: an UpdateStatus call issues one status write and nothing else, returns
\* an error exactly if that write fails, and then the error of the write.
C10_UpdateStatusOneWrite ==
    (last.op = "UpdateStatus") =>
        /\ last.io = <<"UpdateExecutionStatus">>
        /\ (last.err # NoErr) <=> (last.fail = "status")
        /\ (last.fail = "status") => (last.err = ErrStatus)

C10_Witness ==
    /\ last.op = "UpdateStatus"
    /\ last.fail = "status"
    /\ last.err = ErrStatus
    /\ stored[last.exec] # execs[last.exec]

(***************************************************************************)
(* Properties of the render pipelines (under TemplateSpec)                 *)
(***************************************************************************)
\* the executor list of the blueprint that the pipeline p iterates
ExecutorsOf(p) ==
    IF p = "subinstallation" THEN opts.Blueprint.SubinstallationExecutions
    ELSE IF p = "deploy" THEN opts.Blueprint.DeployExecutions
    ELSE opts.Blueprint.ExportExecutions

HasRun == run.pipeline \in Pipelines

Registered(tmplExec) == tmplExec.type \in DOMAIN impl

\* the backend of the executor answers with an error
BackendFails(tmplExec) == tmplExec.template = "err"

\* C2: a pipeline whose executor list has an executor of an unregistered
\* type-tag returns an error and a nil output.
C2_UnregisteredTypeFails ==
    (HasRun /\ \E i \in DOMAIN ExecutorsOf(run.pipeline) : ~Registered(ExecutorsOf(run.pipeline)[i]))
        => (run.err # NoErr /\ run.out.isNil)

\* an executor rendered, then the lookup of the next one missed
C2_Witness ==
    /\ HasRun
    /\ Len(ExecutorsOf(run.pipeline)) = 2
    /\ Len(run.calls) = 1
    /\ ~BackendFails(ExecutorsOf(run.pipeline)[1])
    /\ ~Registered(ExecutorsOf(run.pipeline)[2])
    /\ run.err = ErrUnknownTemplateType(ExecutorsOf(run.pipeline)[2].type)
    /\ run.out.isNil

\* the first position of the list whose executor fails, by a lookup miss or an
\* error of its backend; one past the end if there is none
FirstFailure(l) ==
    IF \E i \in DOMAIN l : ~Registered(l[i]) \/ BackendFails(l[i])
    THEN CHOOSE i \in DOMAIN l :
            /\ ~Registered(l[i]) \/ BackendFails(l[i])
            /\ \A j \in 1..(i - 1) : Registered(l[j]) /\ ~BackendFails(l[j])
    ELSE Len(l) + 1

\* C3: the k-th backend invocation of a run is for the executor at position k
\* and goes to the backend registered for its type, and no backend is invoked
\* for a position after the first failing one.
C3_DeclarationOrderFailFast ==
    HasRun =>
        LET l == ExecutorsOf(run.pipeline) IN
        \A k \in DOMAIN run.calls :
            /\ run.calls[k].pos = k
            /\ k \in DOMAIN l
            /\ Registered(l[k])
            /\ run.calls[k].backend = impl[l[k].type].id
            /\ k <= FirstFailure(l)

\* the backend of the first executor failed and the second was not tried
C3_Witness ==
    /\ HasRun
    /\ Len(ExecutorsOf(run.pipeline)) >= 2
    /\ Registered(ExecutorsOf(run.pipeline)[2])
    /\ BackendFails(ExecutorsOf(run.pipeline)[1])
    /\ Len(run.calls) = 1
    /\ run.calls[1].pos = 1
    /\ run.calls[1].backend = impl[ExecutorsOf(run.pipeline)[1].type].id
    /\ run.err = ErrBackend(impl[ExecutorsOf(run.pipeline)[1].type], ExecutorsOf(run.pipeline)[1])

\* the export names the executor produces
NamesOf(tmplExec) == {it.name : it \in Range(ItemsOf(tmplExec))}

\* the last executor of the list that produces the export name k
LastProducer(l, k) ==
    CHOOSE i \in DOMAIN l :
        /\ k \in NamesOf(l[i])
        /\ \A j \in DOMAIN l : k \in NamesOf(l[j]) => j <= i

\* C4: the result of a successful export pipeline has exactly the export names
\* that some executor produced, each with the value of the last executor that
\* produced it.
C4_ExportMergeRightBiased ==
    (run.pipeline = "export" /\ run.err = NoErr) =>
        LET l == ExecutorsOf("export") IN
        /\ ~run.out.isNil
        /\ DOMAIN run.out.exports = UNION {NamesOf(l[i]) : i \in DOMAIN l}
        /\ \A k \in DOMAIN run.out.exports :
              run.out.exports[k] = l[LastProducer(l, k)].name

\* two executors produced the name x, and the result has the second one's value
C4_Witness ==
    /\ run.pipeline = "export"
    /\ run.err = NoErr
    /\ Len(ExecutorsOf("export")) >= 2
    /\ "x" \in NamesOf(ExecutorsOf("export")[1])
    /\ "x" \in NamesOf(ExecutorsOf("export")[2])
    /\ run.out.exports["x"] = ExecutorsOf("export")[2].name
    /\ run.out.exports["x"] # ExecutorsOf("export")[1].name

\* the outputs of the executors of l from position i on, one after the other
RECURSIVE Concatenation(_, _)
Concatenation(l, i) ==
    IF i > Len(l) THEN <<>> ELSE ItemsOf(l[i]) \o Concatenation(l, i + 1)

AllSucceed(l) == \A i \in DOMAIN l : Registered(l[i]) /\ ~BackendFails(l[i])

\* a serialization at the head of the sub-installation and deploy-item
\* pipelines fails
SerializationFails ==
    \/ opts.ComponentDescriptor = "unencodable"
    \/ opts.ComponentDescriptors = "unencodable"
    \/ opts.Installation \in {"badblueprint", "blueprint+badcd"}

UniqueNames(items) ==
    \A i, j \in DOMAIN items : items[i].name = items[j].name => i = j

\* C5 as stated: when every executor of the list was invoked and succeeded, the
\* sub-installation and the deploy-item pipeline return the concatenation of
\* the outputs.
C5_Original ==
    (/\ run.pipeline \in {"subinstallation", "deploy"}
     /\ AllSucceed(ExecutorsOf(run.pipeline))
     /\ Len(run.calls) = Len(ExecutorsOf(run.pipeline))
     /\ Len(run.calls) >= 1)
        => /\ run.err = NoErr
           /\ run.out = List(Concatenation(ExecutorsOf(run.pipeline), 1))

\* C5 (amended): when the serializations at the head of the pipeline succeed,
\* every executor of the list succeeds and, in the deploy-item pipeline, the
\* validator accepts the aggregated list, the pipeline returns the
\* concatenation of the outputs of the executors, in executor order.
C5_ConcatenationWhenAccepted ==
    (/\ run.pipeline \in {"subinstallation", "deploy"}
     /\ ~SerializationFails
     /\ AllSucceed(ExecutorsOf(run.pipeline))
     /\ run.pipeline = "deploy" => UniqueNames(Concatenation(ExecutorsOf("deploy"), 1)))
        => /\ run.err = NoErr
           /\ run.out = List(Concatenation(ExecutorsOf(run.pipeline), 1))

\* two executors of one and of two items: three items, in executor order
C5_Witness ==
    /\ run.pipeline = "deploy"
    /\ run.err = NoErr
    /\ Len(ExecutorsOf("deploy")) = 2
    /\ Len(run.calls) = 2
    /\ Len(run.out.items) = 3
    /\ run.out.items[1].from = 1
    /\ run.out.items[2].from = 2
    /\ run.out.items[3].from = 2
    /\ run.out.items[2].name = "y"

IsEmptyOutput(out) ==
    /\ ~out.isNil
    /\ IF run.pipeline = "export" THEN DOMAIN out.exports = {} ELSE out.items = <<>>

\* C7 as stated: a pipeline whose executor list is empty returns an empty
\* output and no error and invokes no backend.
C7_Original ==
    (HasRun /\ ExecutorsOf(run.pipeline) = <<>>)
        => (run.err = NoErr /\ IsEmptyOutput(run.out) /\ run.calls = <<>>)

\* C7 (amended): a pipeline whose executor list is empty invokes no backend;
\* the export pipeline, and the other two when the serializations at their
\* head succeed, return an empty output and no error.
C7_EmptyListEmptyOutput ==
    (HasRun /\ ExecutorsOf(run.pipeline) = <<>>)
        => /\ run.calls = <<>>
           /\ (run.pipeline = "export" \/ ~SerializationFails)
                 => (run.err = NoErr /\ IsEmptyOutput(run.out))

\* the deploy-item pipeline ran on an empty list of a blueprint that has
\* executors for another pipeline
C7_Witness ==
    /\ run.pipeline = "deploy"
    /\ ExecutorsOf("deploy") = <<>>
    /\ opts.Blueprint.ExportExecutions # <<>>
    /\ run.err = NoErr
    /\ run.out = List(<<>>)
    /\ run.calls = <<>>

\* C11: the deploy-item pipeline hands a list to the validator at most once,
\* and exactly when the serializations succeeded and every executor rendered;
\* that list is the complete aggregated list; a list is returned only if it is
\* the validated list and the validator accepted it; when the validator
\* rejects the list the pipeline returns the validator's error and no list.
C11_ValidatorOnceOnAggregate ==
    (run.pipeline = "deploy") =>
        LET l == ExecutorsOf("deploy") IN
        /\ Len(run.validated) <= 1
        /\ (Len(run.validated) = 1) <=> (~SerializationFails /\ AllSucceed(l))
        /\ (run.validated # <<>>) =>
              /\ Len(run.calls) = Len(l)
              /\ run.validated[1] = Concatenation(l, 1)
        /\ (~run.out.isNil) =>
              /\ run.validated = <<run.out.items>>
              /\ UniqueNames(run.out.items)
              /\ run.err = NoErr
        /\ (run.validated # <<>> /\ ~UniqueNames(run.validated[1])) =>
              /\ run.out.isNil
              /\ run.err # NoErr
              /\ run.err = ValidateDeployItemTemplateList(run.validated[1])

\* two executors rendered an item of the same name; the validator rejected the
\* aggregated list of the two
C11_Witness ==
    /\ run.pipeline = "deploy"
    /\ Len(run.calls) = 2
    /\ Len(run.validated) = 1
    /\ Len(run.validated[1]) = 2
    /\ run.validated[1][1].name = run.validated[1][2].name
    /\ run.out.isNil
    /\ run.err # NoErr

NilOutput(tmplExec) == tmplExec.template = "nil"

\* the executors of l whose backend answers with an output that is not nil
WithOutput(l) == SelectSeq(l, LAMBDA x : ~NilOutput(x))

\* C13: in a run whose serializations succeed, whose executors all succeed
\* and, for deploy items, whose aggregated list the validator accepts, an
\* executor with a nil output does not fail the pipeline and does not stop it:
\* every executor is invoked, and the result is the concatenation (the
\* right-biased merge, for exports) of the outputs of the other executors.
C13_NilOutputContinues ==
    (/\ HasRun
     /\ run.pipeline = "export" \/ ~SerializationFails
     /\ AllSucceed(ExecutorsOf(run.pipeline))
     /\ run.pipeline = "deploy" => UniqueNames(Concatenation(WithOutput(ExecutorsOf("deploy")), 1))
     /\ \E i \in DOMAIN ExecutorsOf(run.pipeline) : NilOutput(ExecutorsOf(run.pipeline)[i]))
        => LET l == ExecutorsOf(run.pipeline)
               others == WithOutput(l)
           IN  /\ run.err = NoErr
               /\ ~run.out.isNil
               /\ Len(run.calls) = Len(l)
               /\ IF run.pipeline = "export"
                  THEN /\ DOMAIN run.out.exports = UNION {NamesOf(others[i]) : i \in DOMAIN others}
                       /\ \A k \in DOMAIN run.out.exports :
                             run.out.exports[k] = others[LastProducer(others, k)].name
                  ELSE run.out.items = Concatenation(others, 1)

\* the first executor had a nil output, the second one rendered the result
C13_Witness ==
    /\ run.pipeline = "deploy"
    /\ Len(ExecutorsOf("deploy")) = 2
    /\ NilOutput(ExecutorsOf("deploy")[1])
    /\ run.err = NoErr
    /\ Len(run.calls) = 2
    /\ Len(run.out.items) = 2
    /\ run.out.items[1].from = 2

\* the values handed to the backends in the last run
ValuesOfCalls == {run.calls[k].values : k \in DOMAIN run.calls}

\* C14: the values handed to the backends of the subinstallation and of the
\* deploy pipeline always hold the keys imports, cd and components, cd and
\* components being nil when the descriptor (list) is nil, hold blueprint
\* exactly when an installation is given and componentDescriptorDef exactly
\* when the installation has a component descriptor reference, and every
\* executor of one run is handed the same values
C14_ValueContext ==
    (run.pipeline \in {"subinstallation", "deploy"}) =>
        /\ \A k \in DOMAIN run.calls :
              LET values == run.calls[k].values IN
              /\ {"imports", "cd", "components"} \subseteq DOMAIN values
              /\ DOMAIN values \subseteq
                     {"imports", "cd", "components", "blueprint", "componentDescriptorDef"}
              /\ values["imports"] = opts.Imports
              /\ (opts.ComponentDescriptor = "nil") <=> (values["cd"] = NilValue)
              /\ (opts.ComponentDescriptors = "nil") <=> (values["components"] = NilValue)
              /\ ("blueprint" \in DOMAIN values) <=> (opts.Installation # "nil")
              /\ ("componentDescriptorDef" \in DOMAIN values)
                     <=> (opts.Installation = "blueprint+cd")
        /\ Cardinality(ValuesOfCalls) <= 1

C14_Witness ==
    /\ run.pipeline = "deploy"
    /\ Len(run.calls) = 2
    /\ opts.Installation = "blueprint"
    /\ opts.ComponentDescriptor = "nil"
    /\ opts.ComponentDescriptors = "ok"
    /\ "blueprint" \in DOMAIN run.calls[2].values

\* C15: when the component descriptor, the component descriptor list, the
\* blueprint reference or the component descriptor reference does not
\* serialize, the subinstallation and the deploy pipeline return an error and
\* no output, and no backend is invoked
C15_SerializationFailure ==
    (run.pipeline \in {"subinstallation", "deploy"} /\ SerializationFails) =>
        /\ run.err # NoErr
        /\ run.out.isNil
        /\ run.calls = <<>>
        /\ run.validated = <<>>

C15_Witness ==
    /\ run.pipeline = "deploy"
    /\ opts.ComponentDescriptor = "ok"
    /\ opts.ComponentDescriptors = "unencodable"
    /\ Len(ExecutorsOf("deploy")) = 2
    /\ \A i \in 1..2 : Registered(ExecutorsOf("deploy")[i])
    /\ run.err # NoErr
    /\ run.calls = <<>>

\* the error mentions s
Mentions(err, s) == \E k \in DOMAIN err : err[k] = s

\* the run reached its executor loop and an executor of the list failed
ExecutorFailed ==
    /\ HasRun
    /\ run.pipeline = "export" \/ ~SerializationFails
    /\ FirstFailure(ExecutorsOf(run.pipeline)) <= Len(ExecutorsOf(run.pipeline))

\* C16: the error of a pipeline whose executor failed, by a lookup miss or by
\* an error of its backend, names the executor (by name or by type) and the
\* pipeline stage that failed
C16_ErrorAttributable ==
    ExecutorFailed =>
        LET tmplExec == ExecutorsOf(run.pipeline)[FirstFailure(ExecutorsOf(run.pipeline))] IN
        /\ run.err # NoErr
        /\ Mentions(run.err, ToString(tmplExec.name)) \/ Mentions(run.err, tmplExec.type)
        /\ Mentions(run.err, run.pipeline)

\* the type-tags advertised by the backends handed to New
TagsOf(t) == {t[k].type : k \in DOMAIN t}

\* the last backend of the sequence that advertises the type-tag
LastOfTag(t, ty) ==
    t[CHOOSE k \in DOMAIN t :
        /\ t[k].type = ty
        /\ \A j \in DOMAIN t : t[j].type = ty => j <= k]

\* C17: the registry constructed from a sequence of backends holds one backend
\* for each type-tag of the sequence and no other, the backend of a tag is the
\* last one of that tag in the sequence, and every backend invocation of a run
\* for an executor of that tag goes to that backend
C17_LastRegistrationWins ==
    /\ DOMAIN impl = TagsOf(newArgs)
    /\ \A ty \in DOMAIN impl : impl[ty] = LastOfTag(newArgs, ty)
    /\ HasRun =>
          \A k \in DOMAIN run.calls :
              LET tmplExec == ExecutorsOf(run.pipeline)[run.calls[k].pos] IN
              /\ tmplExec.type \in TagsOf(newArgs)
              /\ run.calls[k].backend = LastOfTag(newArgs, tmplExec.type).id

\* two backends of one type-tag, and both executors of the list dispatched
C17_Witness ==
    /\ Len(newArgs) = 2
    /\ newArgs[1].type = newArgs[2].type
    /\ newArgs[1].id # newArgs[2].id
    /\ HasRun
    /\ Len(run.calls) = 2
    /\ \A k \in 1..2 : run.calls[k].backend = newArgs[2].id

\* the objects of the store under the key of the export reference that the
\* Operation of e holds in memory
ExportObjectsOf(objs, status) == {o \in objs : SameKey(o, status.exportReference)}

\* C18: the export object that a CreateOrUpdateExportReference has written,
\* created or updated in place, is in the namespace of the execution, has the
\* source and the context derived from the execution and the execution as its
\* owner
C18_ExportObjectTagged ==
    [][(IsPublish(last') /\ last'.err \in {NoErr, ErrStatus}) =>
          LET e == last'.exec
              written == ExportObjectsOf(objects', execs'[e])
          IN  /\ Cardinality(written) = 1
              /\ \A o \in written :
                    /\ o.namespace = e.namespace
                    /\ o.source = DataObjectSourceFromExecution(e)
                    /\ o.context = DataObjectSourceFromExecution(e)
                    /\ o.owner = OwnerOf(e)
                    /\ o.data = last'.values]_vars

\* the export object written before was written again, in place
C18_Witness ==
    /\ IsPublish(last)
    /\ last.again
    /\ last.err = NoErr
    /\ \E o \in ExportObjectsOf(objects, execs[last.exec]) :
          /\ o.owner = OwnerOf(last.exec)
          /\ o.namespace = last.exec.namespace
          /\ o.data = last.values

\* C20: whenever the status of an execution held by the store has an export
\* reference, the store holds a data object of that name and namespace
C20_ReferenceImpliesObject ==
    \A e \in DOMAIN stored :
        (stored[e].exportReference # NoRef) =>
            \E o \in objects : SameKey(o, stored[e].exportReference)

\* a CreateOrUpdateExportReference failed at the write of the data object after
\* an earlier one had persisted the reference
C20_Witness ==
    /\ IsPublish(last)
    /\ last.err = ErrStore
    /\ stored[last.exec].exportReference # NoRef
    /\ \E o \in objects : SameKey(o, stored[last.exec].exportReference)

(***************************************************************************)
(* Properties of executions processed concurrently (under ConcurrentSpec)  *)
(***************************************************************************)
\* what the store and the Operation hold of the execution e
StateOf(e, mem, sto, objs) ==
    [status |-> mem[e], stored |-> sto[e], exports |-> OwnedBy(objs, e)]

\* the execution has one export object, its own, under its export reference
OwnSingleExport(e) ==
    /\ Cardinality(OwnedBy(objects, e)) = 1
    /\ ExportObjectsOf(objects, execs[e]) = OwnedBy(objects, e)

\* C19: with an Operation for each execution and the calls on one execution
\* one after the other, a store operation of a call on one execution leaves
\* the status, the export reference and the export object of every other
\* execution as they were, and an execution that has an export reference has
\* one export object, its own, under that reference
C19_ExecutionsIsolated ==
    [][/\ \A f \in Executions \ {last'.exec} :
             StateOf(f, execs', stored', objects') = StateOf(f, execs, stored, objects)
       /\ \A e \in Executions :
             (execs'[e].exportReference # NoRef) =>
                 /\ Cardinality(OwnedBy(objects', e)) = 1
                 /\ ExportObjectsOf(objects', execs'[e]) = OwnedBy(objects', e)]_vars

\* both executions have published and the call on one of them is between its
\* two store operations while the other has completed a call
C19_Witness ==
    /\ pc[ExecA] = "status"
    /\ last.exec = ExecB
    /\ last.op = "UpdateExecutionStatus"
    /\ last.err = NoErr
    /\ stored[ExecB].exportReference # NoRef
    /\ stored[ExecA].exportReference # NoRef
    /\ OwnSingleExport(ExecA)
    /\ OwnSingleExport(ExecB)
    /\ OwnedBy(objects, ExecA) # OwnedBy(objects, ExecB)

(***************************************************************************)
(* Failed status writes and retries (under Spec)                           *)
(***************************************************************************)
IsUpdateStatus(call) == call.op = "UpdateStatus"

\* C21: an UpdateStatus whose status write fails leaves the stored status as
\* it was while the execution in memory holds the new phase and the merged
\* conditions; an UpdateStatus or CreateOrUpdateExportReference that succeeds
\* persists the phase and the conditions that the execution in memory held,
\* those of an earlier failed call included
C21_NoRollback ==
    [][LET e == last'.exec IN
       /\ (IsUpdateStatus(last') /\ last'.err # NoErr) =>
             /\ stored' = stored
             /\ execs'[e].phase = last'.phase
             /\ execs'[e].conditions = MergeConditions(execs[e].conditions, last'.conds)
             /\ execs'[e].exportReference = execs[e].exportReference
       /\ (IsUpdateStatus(last') /\ last'.err = NoErr) =>
             /\ stored'[e].phase = last'.phase
             /\ stored'[e].conditions = MergeConditions(execs[e].conditions, last'.conds)
             /\ stored'[e].exportReference = execs[e].exportReference
       /\ (IsPublish(last') /\ last'.err = NoErr) =>
             /\ stored'[e].phase = execs[e].phase
             /\ stored'[e].conditions = execs[e].conditions]_vars

\* the status write of an UpdateStatus failed: the execution in memory is in
\* the new phase with a condition, the stored status is the fresh one
C21_Witness ==
    /\ IsUpdateStatus(last)
    /\ last.err = ErrStatus
    /\ last.phase = "Progressing"
    /\ last.conds # <<>>
    /\ execs[last.exec].phase = "Progressing"
    /\ execs[last.exec].conditions = last.conds
    /\ stored[last.exec] = NewStatus

\* the execution has exactly one export object, it holds the values of the
\* caller and the stored export reference points to it
RetryExported ==
    /\ Cardinality(OwnedBy(objects, ExecA)) = 1
    /\ \A o \in OwnedBy(objects, ExecA) :
          /\ o.data = loop.values
          /\ stored[ExecA].exportReference = ObjectReference(o)

\* C22 as stated: the caller that retries with the same values after every
\* failure, the store failing finitely often, eventually has a call succeed
C22_Original == <>loop.done

\* C22: when the values can be built into a data object, the caller that
\* retries with the same values after every failure, the store failing
\* finitely often, eventually has a call succeed; when a call has succeeded
\* the execution has exactly one export object, which holds the values and
\* which the stored export reference points to
C22_RetryEventuallySucceeds ==
    /\ (loop.values # "chan") ~> loop.done
    /\ [](loop.done => RetryExported)

\* the call succeeded after a status write had failed behind a successful
\* upsert and after a failed upsert
C22_Witness ==
    /\ loop.done
    /\ loop.failed = {"status", "store"}
    /\ last.err = NoErr
    /\ RetryExported

(***************************************************************************)
(* Properties of add manifest deployitem (under ComponentSpec)             *)
(***************************************************************************)
IsAddManifestDeployItem(c) == c.op = "add manifest deployitem"

\* the names of the deploy executions of the blueprint
DeployExecutionNames(b) == {b.DeployExecutions[i].Name : i \in DOMAIN b.DeployExecutions}

UniqueDeployExecutionNames(b) ==
    \A i, j \in DOMAIN b.DeployExecutions :
        b.DeployExecutions[i].Name = b.DeployExecutions[j].Name => i = j

\* C23: the blueprint written by a command has no two deploy executions of
\* one name, and a command for a deploy item that has an execution file or
\* is a deploy execution of the blueprint already fails and leaves the
\* blueprint file as it was
C23_NoDuplicateDeployExecution ==
    [][IsAddManifestDeployItem(cmd') =>
          /\ UniqueDeployExecutionNames(blueprintYaml')
          /\ (cmd'.name \in executionFiles \cup DeployExecutionNames(blueprintYaml)) =>
                (cmd'.err # NoErr /\ blueprintYaml' = blueprintYaml)]_vars

\* the command found the deploy item in the blueprint, which has it once
C23_Witness ==
    /\ IsAddManifestDeployItem(cmd)
    /\ cmd.err = ErrAlreadyContains
    /\ cmd.name \in DeployExecutionNames(blueprintYaml)
    /\ Len(blueprintYaml.DeployExecutions) = 2
    /\ UniqueDeployExecutionNames(blueprintYaml)

\* C24: a command that fails leaves the blueprint file and the execution
\* files as they were
C24_FailureLeavesDirectory ==
    [][(IsAddManifestDeployItem(cmd') /\ cmd'.err # NoErr) =>
          /\ blueprintYaml' = blueprintYaml
          /\ executionFiles' = executionFiles]_vars

(***************************************************************************)
(* Properties of the BlueprintBuilder (under BuilderSpec)                  *)
(***************************************************************************)
ImportNamesOf(imports) == {imports[i].Name : i \in DOMAIN imports}

\* the calls that add the one import definition of the name cmd.name
AddsOneImport(c) == c.op \in {"AddImport", "AddImportForTarget", "AddImportForElementaryType"}

\* C25: a call that adds an import definition whose name the blueprint has
\* leaves the imports as they were, whatever the definition, and otherwise
\* appends that one definition; after AddImport, AddImports,
\* AddImportForTarget and AddImportForElementaryType the import names are
\* pairwise different and the imports there were are where and what they were
C25_AddImportFirstWriterWins ==
    [][LET old == builder.Imports
           new == builder'.Imports
       IN  /\ UniqueImportNames(old) => UniqueImportNames(new)
           /\ Len(new) >= Len(old)
           /\ SubSeq(new, 1, Len(old)) = old
           /\ AddsOneImport(cmd') =>
                 IF cmd'.name \in ImportNamesOf(old) THEN new = old
                 ELSE /\ Len(new) = Len(old) + 1
                      /\ new[Len(new)].Name = cmd'.name
           /\ (cmd'.op = "AddImport" /\ cmd'.name \notin ImportNamesOf(old)) =>
                 new = Append(old, cmd'.defs[1])
           /\ (cmd'.op = "AddImports") =>
                 ImportNamesOf(new) = ImportNamesOf(old) \cup ImportNamesOf(cmd'.defs)]_vars

\* AddImport was called with a definition that differs from the one the
\* blueprint has under its name, and the blueprint has kept its own
C25_Witness ==
    /\ cmd.op = "AddImport"
    /\ UniqueImportNames(builder.Imports)
    /\ \E i \in DOMAIN builder.Imports :
          /\ builder.Imports[i].Name = cmd.name
          /\ builder.Imports[i] # cmd.defs[1]
          /\ i < Len(builder.Imports)
====
